---------------------------- MODULE Spec2Model ----------------------------
(***************************************************************************)
(* A model of src/app.py: the MarketResearchAgent pipeline (industry       *)
(* classification, research gathering, use-case generation, dataset        *)
(* resource collection, proposal assembly) and the part of main() that     *)
(* drives it (lines 180-262).                                              *)
(*                                                                         *)
(* Text is modelled character by character: a Python str is a sequence of  *)
(* one-character strings, so that strip(), lower(), title(), the `in`      *)
(* substring test, re.split and the f-string concatenations are computed   *)
(* as the code computes them.  A Python dict is a sequence of              *)
(* [key, val] records in insertion order with distinct keys.               *)
(*                                                                         *)
(* The two collaborators (the Exa search client and the autogen            *)
(* assistant) are the environment: each action that calls one takes the    *)
(* collaborator's outcome as its parameter and the next-state relations    *)
(* draw it from a finite set.  searchLog and llmLog record the calls the   *)
(* collaborators received together with what they answered.                *)
(*                                                                         *)
(* main() line 169 constructs the agent with a keyword argument that       *)
(* __init__ (line 14) does not accept; the model starts from a constructed *)
(* agent, i.e. it models the class as any caller with a working            *)
(* constructor call drives it.                                             *)
(***************************************************************************)
EXTENDS Naturals, Sequences, FiniteSets

VARIABLES
    pc,               \* position in main(): idle, classify, research, generate,
                      \* resources, assemble, done, aborted
    company_name,     \* the text entered (main line 173)
    industry,         \* research_company's local `industry`
    search_queries,   \* research_company's local list
    qi,               \* index of the query the research loop is at
    research_results, \* research_company's dict / main's research_insights
    use_cases,        \* main's use_cases
    ui,               \* index of the use case the resource loop is at
    pj,               \* index of the platform the inner loop is at
    resources,        \* collect_resource_assets's local `resources`
    resource_map,     \* collect_resource_assets's dict
    final_proposal,   \* main's final_proposal (NoValue until assembled)
    file,             \* contents of ai_strategy_proposal.md (NoValue: not written)
    proposals,        \* every document generate_final_proposal has returned
    clock,            \* the wall clock's date
    ticks,            \* how often the modelled clock has advanced
    messages,         \* st.error / st.warning calls, in order
    searchLog,        \* calls received by exa.search, with their outcome
    llmLog            \* calls received by generate_reply, with their outcome

vars == <<pc, company_name, industry, search_queries, qi, research_results,
          use_cases, ui, pj, resources, resource_map, final_proposal, file,
          proposals, clock, ticks, messages, searchLog, llmLog>>

\* Python's None where a text is expected: no text equals it, a text being a
\* sequence of one-character strings
NoValue == <<"None">>

(***************************************************************************)
(* Bounds of the model.                                                    *)
(***************************************************************************)
\* longest language-model reply enumerated for the use-case parser
MaxLen == 4
\* how many times the wall clock may advance
MaxTicks == 1
\* how many times generate_final_proposal is called on the same arguments
MaxCalls == 2

(***************************************************************************)
(* Characters and Python's str methods.                                    *)
(***************************************************************************)
Lowers == <<"a","b","c","d","e","f","g","h","i","j","k","l","m","n","o","p","q","r","s","t","u","v","w","x","y","z">>
Uppers == <<"A","B","C","D","E","F","G","H","I","J","K","L","M","N","O","P","Q","R","S","T","U","V","W","X","Y","Z">>
Digits == <<"0","1","2","3","4","5","6","7","8","9">>

IsDigit(c) == \E i \in DOMAIN Digits : Digits[i] = c
IsSpace(c) == c \in {" ", "\t", "\n", "\r"}
IsLower(c) == \E i \in DOMAIN Lowers : Lowers[i] = c
IsUpper(c) == \E i \in DOMAIN Uppers : Uppers[i] = c
IsCased(c) == IsLower(c) \/ IsUpper(c)

ToLower(c) == IF IsUpper(c) THEN Lowers[CHOOSE i \in DOMAIN Uppers : Uppers[i] = c] ELSE c
ToUpper(c) == IF IsLower(c) THEN Uppers[CHOOSE i \in DOMAIN Lowers : Lowers[i] = c] ELSE c

\* str.lower()
Lower(s) == [i \in DOMAIN s |-> ToLower(s[i])]

\* str.title(): a cased character is upper-cased when it starts a run of
\* cased characters and lower-cased inside one
Title(s) ==
    [i \in DOMAIN s |->
        IF i > 1 /\ IsCased(s[i-1]) THEN ToLower(s[i]) ELSE ToUpper(s[i])]

RECURSIVE LStrip(_)
LStrip(s) == IF s # <<>> /\ IsSpace(Head(s)) THEN LStrip(Tail(s)) ELSE s

RECURSIVE RStrip(_)
RStrip(s) ==
    IF s # <<>> /\ IsSpace(s[Len(s)]) THEN RStrip(SubSeq(s, 1, Len(s) - 1)) ELSE s

\* str.strip()
Strip(s) == RStrip(LStrip(s))

\* Python's `sub in s` on strings: scan for the first occurrence
RECURSIVE FindFrom(_, _, _)
FindFrom(sub, s, i) ==
    IF i + Len(sub) - 1 > Len(s) THEN FALSE
    ELSE IF SubSeq(s, i, i + Len(sub) - 1) = sub THEN TRUE
    ELSE FindFrom(sub, s, i + 1)

In(sub, s) == FindFrom(sub, s, 1)

\* str(n) for a natural number
RECURSIVE Dec(_)
Dec(n) == IF n < 10 THEN <<Digits[n + 1]>> ELSE Dec(n \div 10) \o <<Digits[(n % 10) + 1]>>

\* concatenation of a sequence of texts (or of lists)
RECURSIVE Flatten(_)
Flatten(ss) == IF ss = <<>> THEN <<>> ELSE Head(ss) \o Flatten(Tail(ss))

\* list[:n]
Take(s, n) == SubSeq(s, 1, IF Len(s) < n THEN Len(s) ELSE n)

(***************************************************************************)
(* Python dict: insertion-ordered, assignment to an existing key replaces  *)
(* its value in place.                                                     *)
(***************************************************************************)
DictHas(d, k) == \E i \in DOMAIN d : d[i].key = k
DictGet(d, k) == d[CHOOSE i \in DOMAIN d : d[i].key = k].val
DictKeys(d) == [i \in DOMAIN d |-> d[i].key]
DictSet(d, k, v) ==
    IF DictHas(d, k)
    THEN [i \in DOMAIN d |-> IF d[i].key = k THEN [key |-> k, val |-> v] ELSE d[i]]
    ELSE Append(d, [key |-> k, val |-> v])

(***************************************************************************)
(* What the collaborators answer.                                          *)
(***************************************************************************)
\* generate_reply raised
LlmError == [kind |-> "error"]
\* generate_reply returned None (autogen's answer when no reply is produced)
LlmNone == [kind |-> "none"]
LlmText(t) == [kind |-> "text", text |-> t]

\* str(reply), lines 34 and 77
Str(reply) == IF reply.kind = "none" THEN <<"N","o","n","e">> ELSE reply.text

\* exa.search raised
SearchFailed == [ok |-> FALSE]
SearchOk(rs) == [ok |-> TRUE, results |-> rs]

\* one element of results.results; published_date is NoValue when absent
Result(t, u, s, d) == [title |-> t, url |-> u, summary |-> s, published_date |-> d]

(***************************************************************************)
(* MarketResearchAgent.                                                    *)
(***************************************************************************)
\* determine_industry, line 34, given what generate_reply returned
determine_industry(reply) == Strip(Str(reply))

SuffixOverview == <<" ","i","n","d","u","s","t","r","y"," ","o","v","e","r","v","i","e","w"," ","a","n","d"," ","t","r","e","n","d","s">>
SuffixStrategy == <<" ","s","t","r","a","t","e","g","i","c"," ","f","o","c","u","s"," ","a","n","d"," ","m","a","r","k","e","t"," ","p","o","s","i","t","i","o","n">>
SuffixInnovation == <<" ","t","e","c","h","n","o","l","o","g","i","c","a","l"," ","i","n","n","o","v","a","t","i","o","n","s"," ","a","n","d"," ","f","u","t","u","r","e"," ","o","u","t","l","o","o","k">>

\* a variant that builds each query from the other of the two names
SearchQueriesSwapped(company, ind) ==
    << company \o SuffixOverview, ind \o SuffixStrategy, company \o SuffixInnovation >>

\* lines 41-45
SearchQueries(company, ind) ==
    << ind \o SuffixOverview, company \o SuffixStrategy, ind \o SuffixInnovation >>

\* the arguments of the search call of line 50
ResearchCall(query) == [query |-> query, num_results |-> 3, type |-> "neural"]

\* lines 51-54: the list stored under the query
ToInsights(results) ==
    [i \in DOMAIN results |->
        [title |-> results[i].title, url |-> results[i].url,
         snippet |-> results[i].summary]]

\* a variant that records the failed query with an empty list
ResearchKeepsFailedQuery(results, query) == DictSet(results, query, <<>>)

\* lines 55-56: what the except branch leaves of research_results
ResearchAfterError(results, query) == results

\* a variant that leaves the loop at the first failed search
NextQueryIndexStopOnError(i, ok) == IF ok THEN i + 1 ELSE 4

\* line 48: the query the loop goes to after the one at index i
NextQueryIndex(i, ok) == i + 1

\* re.split(r'\d+\.', s), line 77.  MatchEnd is the regular expression
\* matched at position i: the longest run of digits from i is taken, then
\* given back digit by digit until a period follows; 0 when nothing matches.
RECURSIVE DigitRun(_, _)
DigitRun(s, i) == IF i <= Len(s) /\ IsDigit(s[i]) THEN 1 + DigitRun(s, i + 1) ELSE 0

RECURSIVE BackTrack(_, _, _)
BackTrack(s, i, k) ==
    IF k = 0 THEN 0
    ELSE IF i + k <= Len(s) /\ s[i + k] = "." THEN i + k
    ELSE BackTrack(s, i, k - 1)

MatchEnd(s, i) == BackTrack(s, i, DigitRun(s, i))

RECURSIVE SplitFrom(_, _, _)
SplitFrom(s, i, start) ==
    IF i > Len(s) THEN << SubSeq(s, start, Len(s)) >>
    ELSE IF MatchEnd(s, i) # 0
         THEN << SubSeq(s, start, i - 1) >>
              \o SplitFrom(s, MatchEnd(s, i) + 1, MatchEnd(s, i) + 1)
         ELSE SplitFrom(s, i + 1, start)

ReSplit(s) == SplitFrom(s, 1, 1)

\* a variant that keeps the empty segments
KeepEveryCase(case) == TRUE

\* the `if case.strip()` of line 77
KeepCase(case) == Strip(case) # <<>>

\* line 77
RECURSIVE StripCases(_)
StripCases(cases) ==
    IF cases = <<>> THEN <<>>
    ELSE (IF KeepCase(Head(cases)) THEN << Strip(Head(cases)) >> ELSE <<>>)
         \o StripCases(Tail(cases))

ParseUseCases(text) == StripCases(ReSplit(text))

\* lines 82-86
platforms == << <<"k","a","g","g","l","e",".","c","o","m","/","d","a","t","a","s","e","t","s">>, <<"h","u","g","g","i","n","g","f","a","c","e",".","c","o","/","d","a","t","a","s","e","t","s">>, <<"g","i","t","h","u","b",".","c","o","m","/","d","a","t","a","s","e","t","s">> >>

\* line 91
ResourceQuery(use_case, platform) ==
    Flatten(<< <<"\"">>, use_case, <<"\""," ","d","a","t","a","s","e","t"," ","s","i","t","e",":">>, platform >>)

\* the arguments of the search call of line 93 (type is left to its default)
ResourceCall(query) == [query |-> query, num_results |-> 3, type |-> "default"]

\* a variant that tests the token only
KeepResultByTokenOnly(url, platform) ==
    \E keyword \in { <<"d","a","t","a","s","e","t">>, <<"d","a","t","a">> } : In(keyword, Lower(url))

\* line 97
KeepResult(url, platform) ==
    /\ In(platform, url)
    /\ \E keyword \in { <<"d","a","t","a","s","e","t">>, <<"d","a","t","a">> } : In(keyword, Lower(url))

\* lines 94-98
RECURSIVE PlatformResources(_, _)
PlatformResources(results, platform) ==
    IF results = <<>> THEN <<>>
    ELSE (IF KeepResult(Head(results).url, platform)
          THEN << [url |-> Head(results).url, title |-> Head(results).title] >>
          ELSE <<>>)
         \o PlatformResources(Tail(results), platform)

\* a variant that stores everything gathered
TruncateNothing(rs) == rs

\* resources[:3], line 103
Truncate(rs) == Take(rs, 3)

MonthNames ==
    << <<"J","a","n","u","a","r","y">>, <<"F","e","b","r","u","a","r","y">>, <<"M","a","r","c","h">>, <<"A","p","r","i","l">>, <<"M","a","y">>, <<"J","u","n","e">>, <<"J","u","l","y">>,
       <<"A","u","g","u","s","t">>, <<"S","e","p","t","e","m","b","e","r">>, <<"O","c","t","o","b","e","r">>, <<"N","o","v","e","m","b","e","r">>, <<"D","e","c","e","m","b","e","r">> >>

\* datetime.now().strftime('%B %d, %Y'), line 111, for a four-digit year
StrfDate(d) ==
    Flatten(<< MonthNames[d.month], <<" ">>,
               IF d.day < 10 THEN <<"0">> \o Dec(d.day) ELSE Dec(d.day),
               <<","," ">>, Dec(d.year) >>)

\* line 118
DateStr(insight) ==
    IF "published_date" \in DOMAIN insight /\ insight.published_date # <<"N","/","A">>
    THEN Flatten(<< <<" ","(">>, insight.published_date, <<")">> >>)
    ELSE <<>>

\* lines 119-122
InsightSection(insight) ==
    Flatten(<< <<"#","#","#","#"," ">>, insight.title, DateStr(insight), <<"\n","\n">>,
               insight.snippet, <<"\n","\n">>,
               <<"[","R","e","a","d"," ","m","o","r","e","]","(">>, insight.url, <<")","\n","\n">>,
               <<"-","-","-","\n","\n">> >>)

\* lines 116-122
QuerySection(entry) ==
    Flatten(<< <<"#","#","#"," ">>, Title(entry.key), <<"\n","\n">> >>)
    \o Flatten([i \in DOMAIN entry.val |-> InsightSection(entry.val[i])])

\* line 132
ResourceLine(resource) ==
    Flatten(<< <<"-"," ","[">>, resource.title, <<"]","(">>, resource.url, <<")","\n">> >>)

\* lines 127-134
UseCaseSection(idx, use_case, rmap) ==
    Flatten(<< <<"#","#","#"," ","U","s","e"," ","C","a","s","e"," ">>, Dec(idx), <<":"," ">>, use_case, <<"\n","\n">> >>)
    \o (IF DictHas(rmap, use_case) /\ DictGet(rmap, use_case) # <<>>
        THEN <<"#","#","#","#"," ","R","e","c","o","m","m","e","n","d","e","d"," ","D","a","t","a","s","e","t","s",":","\n">>
             \o Flatten([i \in DOMAIN DictGet(rmap, use_case) |->
                            ResourceLine(DictGet(rmap, use_case)[i])])
        ELSE <<>>)
    \o <<"\n">>

\* lines 107-136.  The method takes no timestamp: line 111 reads the wall
\* clock, which is the variable clock here.
generate_final_proposal(company, ind, cases, rmap, insights) ==
    Flatten(<< <<"#"," ","A","I"," ","S","t","r","a","t","e","g","y"," ","A","n","a","l","y","s","i","s"," ","f","o","r"," ">>, company, <<"\n","\n">>,
               <<"#","#"," ","I","n","d","u","s","t","r","y",":"," ">>, ind, <<"\n","\n">>,
               <<"*","G","e","n","e","r","a","t","e","d"," ","o","n"," ">>, StrfDate(clock), <<"*","\n","\n">>,
               <<"#","#"," ","M","a","r","k","e","t"," ","R","e","s","e","a","r","c","h"," ","I","n","s","i","g","h","t","s","\n">> >>)
    \o Flatten([i \in DOMAIN insights |-> QuerySection(insights[i])])
    \o <<"#","#"," ","R","e","c","o","m","m","e","n","d","e","d"," ","A","I","/","M","L"," ","U","s","e"," ","C","a","s","e","s","\n","\n">>
    \o Flatten([i \in DOMAIN cases |-> UseCaseSection(i, cases[i], rmap)])

(***************************************************************************)
(* main(), lines 180-262, and the methods it calls, step by step.          *)
(***************************************************************************)
NowAtStart == [year |-> 2026, month |-> 11, day |-> 2]

Init ==
    /\ pc = "idle"
    /\ company_name = <<>>
    /\ industry = NoValue
    /\ search_queries = <<>>
    /\ qi = 1
    /\ research_results = <<>>
    /\ use_cases = <<>>
    /\ ui = 1
    /\ pj = 1
    /\ resources = <<>>
    /\ resource_map = <<>>
    /\ final_proposal = NoValue
    /\ file = NoValue
    /\ proposals = <<>>
    /\ clock = NowAtStart
    /\ ticks = 0
    /\ messages = <<>>
    /\ searchLog = <<>>
    /\ llmLog = <<>>

\* lines 180-181 and 270-271: the button is pressed with `name` in the input
Start(name) ==
    /\ pc = "idle"
    /\ company_name' = name
    /\ IF name # <<>>
       THEN /\ pc' = "classify"
            /\ UNCHANGED messages
       ELSE /\ pc' = "done"
            /\ messages' = Append(messages, [level |-> "warning", about |-> "company name"])
    /\ UNCHANGED <<industry, search_queries, qi, research_results, use_cases, ui, pj,
                   resources, resource_map, final_proposal, file, proposals, clock,
                   ticks, searchLog, llmLog>>

\* lines 189, 39-47: determine_industry and the set-up of the research loop.
\* Neither research_company nor main catches what generate_reply raises.
Classify(reply) ==
    /\ pc = "classify"
    /\ llmLog' = Append(llmLog, [agent |-> "industry_analyzer", reply |-> reply])
    /\ IF reply.kind = "error"
       THEN /\ pc' = "aborted"
            /\ UNCHANGED <<industry, search_queries, qi, research_results>>
       ELSE /\ industry' = determine_industry(reply)
            /\ search_queries' = SearchQueries(company_name, industry')
            /\ research_results' = <<>>
            /\ qi' = 1
            /\ pc' = "research"
    /\ UNCHANGED <<company_name, use_cases, ui, pj, resources, resource_map,
                   final_proposal, file, proposals, clock, ticks, messages, searchLog>>

\* lines 48-58: one iteration of the research loop
ResearchQuery(outcome) ==
    /\ pc = "research"
    /\ qi <= Len(search_queries)
    /\ LET query == search_queries[qi] IN
        /\ searchLog' = Append(searchLog, [call |-> ResearchCall(query), outcome |-> outcome])
        /\ IF outcome.ok
           THEN /\ research_results' =
                       DictSet(research_results, query, ToInsights(outcome.results))
                /\ UNCHANGED messages
           ELSE /\ research_results' = ResearchAfterError(research_results, query)
                /\ messages' = Append(messages, [level |-> "error", about |-> query])
    /\ qi' = NextQueryIndex(qi, outcome.ok)
    /\ pc' = IF qi' > Len(search_queries) THEN "generate" ELSE "research"
    /\ UNCHANGED <<company_name, industry, search_queries, use_cases, ui, pj, resources,
                   resource_map, final_proposal, file, proposals, clock, ticks, llmLog>>

\* a variant of Generate that catches what generate_reply raises and goes on
\* with no use cases
GenerateSwallowingErrors(reply) ==
    /\ pc = "generate"
    /\ llmLog' = Append(llmLog, [agent |-> "use_case_generator", reply |-> reply])
    /\ use_cases' = IF reply.kind = "error" THEN <<>> ELSE ParseUseCases(Str(reply))
    /\ resource_map' = <<>>
    /\ resources' = <<>>
    /\ ui' = 1
    /\ pj' = 1
    /\ pc' = IF use_cases' = <<>> THEN "assemble" ELSE "resources"
    /\ UNCHANGED <<company_name, industry, search_queries, qi, research_results,
                   final_proposal, file, proposals, clock, ticks, messages, searchLog>>

\* lines 195, 60-77: generate_use_cases, and lines 81-88 of
\* collect_resource_assets: an empty list skips the resource loop
Generate(reply) ==
    /\ pc = "generate"
    /\ llmLog' = Append(llmLog, [agent |-> "use_case_generator", reply |-> reply])
    /\ IF reply.kind = "error"
       THEN /\ pc' = "aborted"
            /\ UNCHANGED <<use_cases, ui, pj, resources, resource_map>>
       ELSE /\ use_cases' = ParseUseCases(Str(reply))
            /\ resource_map' = <<>>
            /\ resources' = <<>>
            /\ ui' = 1
            /\ pj' = 1
            /\ pc' = IF use_cases' = <<>> THEN "assemble" ELSE "resources"
    /\ UNCHANGED <<company_name, industry, search_queries, qi, research_results,
                   final_proposal, file, proposals, clock, ticks, messages, searchLog>>

\* lines 90-101: one iteration of the platform loop
ResourceSearch(outcome) ==
    /\ pc = "resources"
    /\ pj <= Len(platforms)
    /\ LET use_case == use_cases[ui]
           platform == platforms[pj]
           query == ResourceQuery(use_case, platform)
       IN
        /\ searchLog' = Append(searchLog, [call |-> ResourceCall(query), outcome |-> outcome])
        /\ IF outcome.ok
           THEN /\ resources' = resources \o PlatformResources(outcome.results, platform)
                /\ UNCHANGED messages
           ELSE /\ messages' = Append(messages, [level |-> "warning", about |-> use_case])
                /\ UNCHANGED resources
    /\ pj' = pj + 1
    /\ UNCHANGED <<pc, company_name, industry, search_queries, qi, research_results,
                   use_cases, ui, resource_map, final_proposal, file, proposals, clock,
                   ticks, llmLog>>

\* lines 103, 88-89, 105: the entry is stored and the loop moves on
StoreResources ==
    /\ pc = "resources"
    /\ pj > Len(platforms)
    /\ resource_map' = DictSet(resource_map, use_cases[ui], Truncate(resources))
    /\ resources' = <<>>
    /\ pj' = 1
    /\ ui' = ui + 1
    /\ pc' = IF ui' > Len(use_cases) THEN "assemble" ELSE "resources"
    /\ UNCHANGED <<company_name, industry, search_queries, qi, research_results,
                   use_cases, final_proposal, file, proposals, clock, ticks, messages,
                   searchLog, llmLog>>

\* the wall clock passes midnight.  Only line 111 reads it, so its advance is
\* modelled where generate_final_proposal is about to be called.
TickClock ==
    /\ pc = "assemble"
    /\ ticks < MaxTicks
    /\ clock.day < 30
    /\ clock' = [clock EXCEPT !.day = @ + 1]
    /\ ticks' = ticks + 1
    /\ UNCHANGED <<pc, company_name, industry, search_queries, qi, research_results,
                   use_cases, ui, pj, resources, resource_map, final_proposal, file,
                   proposals, messages, searchLog, llmLog>>

\* lines 205-207 and 260-262: the proposal is assembled, shown and written
Assemble ==
    /\ pc = "assemble"
    /\ final_proposal' = generate_final_proposal(company_name, industry, use_cases,
                                                 resource_map, research_results)
    /\ proposals' = Append(proposals, final_proposal')
    /\ file' = final_proposal'
    /\ pc' = "done"
    /\ UNCHANGED <<company_name, industry, search_queries, qi, research_results,
                   use_cases, ui, pj, resources, resource_map, clock, ticks, messages,
                   searchLog, llmLog>>

\* lines 107-136 called directly, as a test of the method calls it
CallGenerateFinalProposal ==
    /\ pc = "assemble"
    /\ Len(proposals) < MaxCalls
    /\ proposals' = Append(proposals,
                           generate_final_proposal(company_name, industry, use_cases,
                                                   resource_map, research_results))
    /\ UNCHANGED <<pc, company_name, industry, search_queries, qi, research_results,
                   use_cases, ui, pj, resources, resource_map, final_proposal, file,
                   clock, ticks, messages, searchLog, llmLog>>

(***************************************************************************)
(* The inputs and collaborator outcomes the specifications draw from.      *)
(***************************************************************************)
Acme == <<"A","c","m","e">>
Tesla == <<"T","e","s","l","a">>
Route == <<"R","o","u","t","e">>
Churn == <<"C","h","u","r","n">>

Companies == { <<>>, Acme, Tesla }

ClassifyReplies == { LlmError, LlmNone, LlmText(<<" ","R","o","b","o","t","i","c","s","\n">>), LlmText(<<" "," ">>) }

Dated == Result(<<"T","1">>, <<"e","x",".","c","o","m","/","a">>, <<"s","1">>, <<"2","0","2","4","-","0","5","-","0","1">>)
Undated == Result(<<"T","2">>, <<"e","x",".","c","o","m","/","b">>, <<"s","2">>, NoValue)

ResearchOutcomes == { SearchFailed, SearchOk(<<>>), SearchOk(<< Dated, Undated >>) }

GenerateReplies ==
    { LlmError, LlmNone, LlmText(<<>>), LlmText(<<"O","n","e"," ","e","n","g","i","n","e",".">>),
      LlmText(<<"1","."," ","R","o","u","t","e","\n","2","."," ","C","h","u","r","n","\n">>) }

K1 == Result(<<"D","1">>, <<"k","a","g","g","l","e",".","c","o","m","/","d","a","t","a","s","e","t","s","/","x","/","r","o","b","o","t","i","c","s","-","d","a","t","a">>, <<"d">>, NoValue)
K2 == Result(<<"D","2">>, <<"k","a","g","g","l","e",".","c","o","m","/","n","o","t","e","b","o","o","k","s","/","x">>, <<"d">>, NoValue)
K3 == Result(<<"D","3">>, <<"k","a","g","g","l","e",".","c","o","m","/","d","a","t","a","s","e","t","s","/","y">>, <<"d">>, NoValue)
H1 == Result(<<"D","4">>, <<"h","u","g","g","i","n","g","f","a","c","e",".","c","o","/","d","a","t","a","s","e","t","s","/","a">>, <<"d">>, NoValue)
H2 == Result(<<"D","5">>, <<"H","u","g","g","i","n","g","F","a","c","e",".","c","o","/","d","a","t","a","s","e","t","s","/","b">>, <<"d">>, NoValue)
G1 == Result(<<"D","6">>, <<"g","i","t","h","u","b",".","c","o","m","/","d","a","t","a","s","e","t","s","/","g">>, <<"d">>, NoValue)
G2 == Result(<<"D","7">>, <<"g","i","t","h","u","b",".","c","o","m","/","x","/","D","a","t","a">>, <<"d">>, NoValue)

\* the pipeline specification's resource searches
ResourceOutcomes == { SearchFailed, SearchOk(<< K1, H1, G2 >>) }

\* the resource specification's searches
RichResourceOutcomes ==
    { SearchFailed, SearchOk(<< K1, K2, K3 >>), SearchOk(<< H1, H2, G1 >>),
      SearchOk(<< G2, K1, H1 >>) }

UseCaseLists == { << Route >>, << Route, Route >>, << Route, Churn >> }

ParseAlphabet == { "1", "2", ".", " ", "a" }

ReplyTexts ==
    UNION { [1..n -> ParseAlphabet] : n \in 0..MaxLen }
    \cup { <<"1","."," ","I","m","p","r","o","v","e"," ","r","o","u","t","i","n","g","."," ","2","."," ","P","r","e","d","i","c","t"," ","c","h","u","r","n",".">>,
           <<" ","A"," ","s","i","n","g","l","e"," ","u","n","i","f","i","e","d"," ","r","e","c","o","m","m","e","n","d","a","t","i","o","n"," ","e","n","g","i","n","e","."," ">> }

(***************************************************************************)
(* Spec: a run of main(), on one day.                                      *)
(***************************************************************************)
Next ==
    \/ \E name \in Companies : Start(name)
    \/ \E reply \in ClassifyReplies : Classify(reply)
    \/ \E outcome \in ResearchOutcomes : ResearchQuery(outcome)
    \/ \E reply \in GenerateReplies : Generate(reply)
    \/ \E outcome \in ResourceOutcomes : ResourceSearch(outcome)
    \/ StoreResources
    \/ Assemble

Spec == Init /\ [][Next]_vars

(***************************************************************************)
(* ParseSpec: generate_use_cases called on every reply text up to MaxLen.  *)
(***************************************************************************)
ParseInit ==
    /\ pc = "generate"
    /\ company_name = Acme
    /\ industry = <<"R","o","b","o","t","i","c","s">>
    /\ search_queries = <<>>
    /\ qi = 1
    /\ research_results = <<>>
    /\ use_cases = <<>>
    /\ ui = 1
    /\ pj = 1
    /\ resources = <<>>
    /\ resource_map = <<>>
    /\ final_proposal = NoValue
    /\ file = NoValue
    /\ proposals = <<>>
    /\ clock = NowAtStart
    /\ ticks = 0
    /\ messages = <<>>
    /\ searchLog = <<>>
    /\ llmLog = <<>>

ParseNext == \E t \in ReplyTexts : Generate(LlmText(t))

ParseSpec == ParseInit /\ [][ParseNext]_vars

(***************************************************************************)
(* ResourceSpec: collect_resource_assets called on a list of use cases.    *)
(***************************************************************************)
ResourceInit ==
    /\ pc = "resources"
    /\ company_name = Acme
    /\ industry = <<"R","o","b","o","t","i","c","s">>
    /\ search_queries = <<>>
    /\ qi = 1
    /\ research_results = <<>>
    /\ use_cases \in UseCaseLists
    /\ ui = 1
    /\ pj = 1
    /\ resources = <<>>
    /\ resource_map = <<>>
    /\ final_proposal = NoValue
    /\ file = NoValue
    /\ proposals = <<>>
    /\ clock = NowAtStart
    /\ ticks = 0
    /\ messages = <<>>
    /\ searchLog = <<>>
    /\ llmLog = <<>>

ResourceNext ==
    \/ \E outcome \in RichResourceOutcomes : ResourceSearch(outcome)
    \/ StoreResources

ResourceSpec == ResourceInit /\ [][ResourceNext]_vars

(***************************************************************************)
(* AssembleSpec: generate_final_proposal called MaxCalls times on the same *)
(* arguments while the wall clock runs.                                    *)
(***************************************************************************)
InsightMaps ==
    { <<>>,
      << [key |-> <<"R","o","b","o","t","i","c","s"," ","i","n","d","u","s","t","r","y"," ","o","v","e","r","v","i","e","w"," ","a","n","d"," ","t","r","e","n","d","s">>,
          val |-> << [title |-> <<"T","1">>, url |-> <<"e","x",".","c","o","m","/","a">>, snippet |-> <<"s","1">>] >>] >>,
      << [key |-> <<"A","c","m","e"," ","s","t","r","a","t","e","g","i","c"," ","f","o","c","u","s"," ","a","n","d"," ","m","a","r","k","e","t"," ","p","o","s","i","t","i","o","n">>,
          val |-> << [title |-> <<"T","2">>, url |-> <<"e","x",".","c","o","m","/","b">>, snippet |-> <<"s","2">>,
                      published_date |-> <<"2","0","2","4","-","0","5","-","0","1">>] >>] >> }

ResourceMaps ==
    { <<>>,
      << [key |-> Route, val |-> << [url |-> K1.url, title |-> K1.title] >>] >>,
      << [key |-> Route, val |-> <<>>] >> }

AssembleInit ==
    /\ pc = "assemble"
    /\ company_name \in { Acme, Tesla }
    /\ industry \in { <<"R","o","b","o","t","i","c","s">>, <<>> }
    /\ search_queries = <<>>
    /\ qi = 1
    /\ research_results \in InsightMaps
    /\ use_cases \in { <<>>, << Route >>, << Route, Churn >> }
    /\ ui = 1
    /\ pj = 1
    /\ resources = <<>>
    /\ resource_map \in ResourceMaps
    /\ final_proposal = NoValue
    /\ file = NoValue
    /\ proposals = <<>>
    /\ clock = NowAtStart
    /\ ticks = 0
    /\ messages = <<>>
    /\ searchLog = <<>>
    /\ llmLog = <<>>

AssembleNext == TickClock \/ CallGenerateFinalProposal

AssembleSpec == AssembleInit /\ [][AssembleNext]_vars

(***************************************************************************)
(* Vocabulary of the properties.                                           *)
(***************************************************************************)
IsResearchCall(e) == e.call.type = "neural"
IsResourceCall(e) == e.call.type = "default"
IsFailedCall(e) == ~e.outcome.ok
IsOkCall(e) == e.outcome.ok
IsErrorMessage(m) == m.level = "error"
IsResourceWarning(m) == m.level = "warning" /\ m.about # "company name"

\* the calls the research stage / the resource stage made, in order
ResearchCalls == SelectSeq(searchLog, IsResearchCall)
ResourceCalls == SelectSeq(searchLog, IsResourceCall)

\* the i-th language-model call was made and returned (did not raise)
LlmReturned(i) == i \in DOMAIN llmLog /\ llmLog[i].reply.kind # "error"

\* the text sub occurs in the text s
Occurs(sub, s) ==
    \E i \in 1..Len(s) :
        /\ i + Len(sub) - 1 <= Len(s)
        /\ \A j \in 1..Len(sub) : s[i + j - 1] = sub[j]

ProposalProduced == final_proposal # NoValue \/ file # NoValue \/ proposals # <<>>

(***************************************************************************)
(* C1.  A run ends with a proposal if and only if both language-model      *)
(* calls returned: a call that raises aborts the run with no proposal      *)
(* assembled or written, a run aborts only right after a language-model    *)
(* call that raised, and whatever the searches did the two loops stay      *)
(* within their lists, so that the run goes on to the next stage.          *)
(***************************************************************************)
C1_ProposalIffBothLlmCallsReturn ==
    /\ ProposalProduced => LlmReturned(1) /\ LlmReturned(2)
    /\ pc = "done" => (ProposalProduced <=> LlmReturned(1) /\ LlmReturned(2))
    /\ pc = "aborted" =>
          /\ llmLog # <<>>
          /\ llmLog[Len(llmLog)].reply.kind = "error"
          /\ ~ProposalProduced
    /\ (\E i \in DOMAIN llmLog : llmLog[i].reply.kind = "error") => pc = "aborted"
    /\ LlmReturned(1) /\ LlmReturned(2) => pc \in {"resources", "assemble", "done"}
    /\ pc = "research" => qi \in 1..Len(search_queries)
    /\ pc = "resources" => ui \in 1..Len(use_cases) /\ pj \in 1..(Len(platforms) + 1)

\* a proposal was written although all three research searches and a
\* resource search failed
C1_Witness ==
    /\ pc = "done"
    /\ file # NoValue
    /\ Len(SelectSeq(ResearchCalls, IsFailedCall)) = 3
    /\ SelectSeq(ResourceCalls, IsFailedCall) # <<>>

(***************************************************************************)
(* C2.  Whatever subset of the research searches fails, the keys of the    *)
(* research map are exactly the queries whose search succeeded, in order;  *)
(* a failed query is not a key; there is one error message per failed      *)
(* query; the stage goes on to use-case generation; one failure gives two  *)
(* entries and one message.                                                *)
(***************************************************************************)
C2_KeysAreTheSucceededQueries ==
    LET succeeded == SelectSeq(ResearchCalls, IsOkCall)
        failed == SelectSeq(ResearchCalls, IsFailedCall)
        errors == SelectSeq(messages, IsErrorMessage)
    IN  /\ DictKeys(research_results) = [i \in DOMAIN succeeded |-> succeeded[i].call.query]
        /\ \A i \in DOMAIN failed : ~DictHas(research_results, failed[i].call.query)
        /\ [i \in DOMAIN errors |-> errors[i].about]
              = [i \in DOMAIN failed |-> failed[i].call.query]
        /\ Len(ResearchCalls) = 3 /\ Len(llmLog) = 1 => pc = "generate"
        /\ Len(ResearchCalls) = 3 /\ Len(failed) = 1 =>
              Len(research_results) = 2 /\ Len(errors) = 1

\* the research stage ended with exactly one failed search
C2_Witness ==
    /\ pc = "generate"
    /\ Len(SelectSeq(ResearchCalls, IsFailedCall)) = 1
    /\ Len(research_results) = 2
    /\ Len(SelectSeq(messages, IsErrorMessage)) = 1

(***************************************************************************)
(* C3.  The research map never has more than 3 keys and each key is one of *)
(* the three template queries built from the company name and the          *)
(* industry; for Acme classified as Robotics these are the three literal   *)
(* queries.                                                                *)
(***************************************************************************)
C3_KeysAreTemplateQueries ==
    /\ Len(research_results) <= 3
    /\ \A i \in DOMAIN research_results :
          research_results[i].key \in
              { industry \o <<" ","i","n","d","u","s","t","r","y"," ","o","v","e","r","v","i","e","w"," ","a","n","d"," ","t","r","e","n","d","s">>,
                company_name \o <<" ","s","t","r","a","t","e","g","i","c"," ","f","o","c","u","s"," ","a","n","d"," ","m","a","r","k","e","t"," ","p","o","s","i","t","i","o","n">>,
                industry \o <<" ","t","e","c","h","n","o","l","o","g","i","c","a","l"," ","i","n","n","o","v","a","t","i","o","n","s"," ","a","n","d"," ","f","u","t","u","r","e"," ","o","u","t","l","o","o","k">> }
    /\ company_name = <<"A","c","m","e">> /\ industry = <<"R","o","b","o","t","i","c","s">> =>
          \A i \in DOMAIN research_results :
              research_results[i].key \in
                  { <<"R","o","b","o","t","i","c","s"," ","i","n","d","u","s","t","r","y"," ","o","v","e","r","v","i","e","w"," ","a","n","d"," ","t","r","e","n","d","s">>,
                    <<"A","c","m","e"," ","s","t","r","a","t","e","g","i","c"," ","f","o","c","u","s"," ","a","n","d"," ","m","a","r","k","e","t"," ","p","o","s","i","t","i","o","n">>,
                    <<"R","o","b","o","t","i","c","s"," ","t","e","c","h","n","o","l","o","g","i","c","a","l"," ","i","n","n","o","v","a","t","i","o","n","s"," ","a","n","d"," ","f","u","t","u","r","e"," ","o","u","t","l","o","o","k">> }

\* all three searches succeeded for Acme / Robotics
C3_Witness ==
    /\ pc = "generate"
    /\ company_name = <<"A","c","m","e">>
    /\ industry = <<"R","o","b","o","t","i","c","s">>
    /\ Len(research_results) = 3

(***************************************************************************)
(* C4 (as claimed).  When the classification call raises or returns empty  *)
(* or whitespace-only text, the run aborts: no industry label is set, no   *)
(* search is issued.                                                       *)
(***************************************************************************)
C4_EmptyClassificationFails ==
    (/\ llmLog # <<>>
     /\ \/ llmLog[1].reply.kind = "error"
        \/ Strip(Str(llmLog[1].reply)) = <<>>)
    => /\ pc = "aborted"
       /\ industry = NoValue
       /\ searchLog = <<>>

(***************************************************************************)
(* C9.  The research stage calls the search collaborator once per template *)
(* query, in template order, each for 3 results in neural mode, whatever   *)
(* fails: after the stage exactly three calls were made, during it one per *)
(* query already passed, and they precede every other search.              *)
(***************************************************************************)
C9_ThreeResearchCallsInOrder ==
    LET expected ==
            << [query |-> industry \o <<" ","i","n","d","u","s","t","r","y"," ","o","v","e","r","v","i","e","w"," ","a","n","d"," ","t","r","e","n","d","s">>,
                num_results |-> 3, type |-> "neural"],
               [query |-> company_name \o <<" ","s","t","r","a","t","e","g","i","c"," ","f","o","c","u","s"," ","a","n","d"," ","m","a","r","k","e","t"," ","p","o","s","i","t","i","o","n">>,
                num_results |-> 3, type |-> "neural"],
               [query |-> industry \o <<" ","t","e","c","h","n","o","l","o","g","i","c","a","l"," ","i","n","n","o","v","a","t","i","o","n","s"," ","a","n","d"," ","f","u","t","u","r","e"," ","o","u","t","l","o","o","k">>,
                num_results |-> 3, type |-> "neural"] >>
        made == IF pc = "research" THEN qi - 1 ELSE IF LlmReturned(1) THEN 3 ELSE 0
    IN  /\ Len(ResearchCalls) = made
        /\ \A i \in 1..made :
              /\ searchLog[i] = ResearchCalls[i]
              /\ ResearchCalls[i].call = expected[i]

\* the stage ended after three failed searches
C9_Witness ==
    /\ pc = "generate"
    /\ Len(searchLog) = 3
    /\ \A i \in 1..3 : ~searchLog[i].outcome.ok

(***************************************************************************)
(* C10 (as claimed).  In the written proposal the heading of every search  *)
(* result of the research stage carries the published date exactly when    *)
(* the result had one.                                                     *)
(***************************************************************************)
C10_PublishedDateRendered ==
    pc = "done" /\ file # NoValue =>
        \A i \in DOMAIN ResearchCalls :
            ResearchCalls[i].outcome.ok =>
                \A k \in DOMAIN ResearchCalls[i].outcome.results :
                    LET r == ResearchCalls[i].outcome.results[k] IN
                    Occurs(Flatten(<< <<"#","#","#","#"," ">>, r.title,
                                      IF r.published_date # NoValue
                                      THEN Flatten(<< <<" ","(">>, r.published_date, <<")">> >>)
                                      ELSE <<>>,
                                      <<"\n","\n">> >>),
                           file)

(***************************************************************************)
(* C5.  For every use case whose platform loop has ended, the resource map *)
(* has an entry of at most 3 resources; the entry of a use-case text is    *)
(* the first 3 elements of the concatenation, in platform order, of the    *)
(* filtered results of the platforms whose search succeeded, for the last  *)
(* use case of that text (an earlier one of the same text is overwritten); *)
(* each failed search is one warning and contributes nothing.              *)
(***************************************************************************)
\* how many use cases have been stored
Stored == IF pc \in {"assemble", "done"} THEN Len(use_cases) ELSE ui - 1

\* the search made for use case i on platform p
CallOf(i, p) == ResourceCalls[3 * (i - 1) + p]

\* the filtered results of use case i, platform after platform
Gathered(i) ==
    Flatten([p \in 1..3 |->
                IF CallOf(i, p).outcome.ok
                THEN PlatformResources(CallOf(i, p).outcome.results, platforms[p])
                ELSE <<>>])

\* C5: the entry of a use case is the first 3 gathered resources, in
\* platform order, with one warning per failed search
C5_EntryIsFirstThreeInPlatformOrder ==
    /\ \A i \in 1..Stored :
          /\ \A p \in 1..3 :
                CallOf(i, p).call.query
                    = Flatten(<< <<"\"">>, use_cases[i], <<"\""," ","d","a","t","a","s","e","t"," ","s","i","t","e",":">>,
                                 << <<"k","a","g","g","l","e",".","c","o","m","/","d","a","t","a","s","e","t","s">>, <<"h","u","g","g","i","n","g","f","a","c","e",".","c","o","/","d","a","t","a","s","e","t","s">>,
                                    <<"g","i","t","h","u","b",".","c","o","m","/","d","a","t","a","s","e","t","s">> >>[p] >>)
          /\ DictHas(resource_map, use_cases[i])
          /\ Len(DictGet(resource_map, use_cases[i])) <= 3
          /\ (\A k \in (i + 1)..Stored : use_cases[k] # use_cases[i]) =>
                LET gathered == Gathered(i) IN
                DictGet(resource_map, use_cases[i])
                    = [n \in 1..(IF Len(gathered) < 3 THEN Len(gathered) ELSE 3)
                          |-> gathered[n]]
    /\ Len(SelectSeq(messages, IsResourceWarning))
          = Len(SelectSeq(ResourceCalls, IsFailedCall))

\* one use case gathered more than 3 resources, and a search failed
C5_Witness ==
    /\ pc = "assemble"
    /\ \E i \in 1..Len(use_cases) : Len(Gathered(i)) > 3
    /\ SelectSeq(ResourceCalls, IsFailedCall) # <<>>
    /\ \A i \in DOMAIN resource_map : Len(resource_map[i].val) <= 3

(***************************************************************************)
(* C6.  A search result is kept for a platform if and only if its URL      *)
(* contains the platform string and, compared case-insensitively, the      *)
(* token "dataset" or "data": the resources gathered so far for the current*)
(* use case are exactly those results, every stored resource is such a     *)
(* result, and the two URLs of the specification are kept and discarded.   *)
(***************************************************************************)
OccursIgnoringCase(sub, s) ==
    LET lowered == [k \in DOMAIN s |-> ToLower(s[k])] IN
    \E i \in 1..Len(s) :
        /\ i + Len(sub) - 1 <= Len(s)
        /\ \A j \in 1..Len(sub) : lowered[i + j - 1] = ToLower(sub[j])

IsDatasetOf(url, platform) ==
    /\ Occurs(platform, url)
    /\ OccursIgnoringCase(<<"d","a","t","a","s","e","t">>, url) \/ OccursIgnoringCase(<<"d","a","t","a">>, url)

DatasetsOf(results, platform) ==
    LET IsKept(r) == IsDatasetOf(r.url, platform)
        kept == SelectSeq(results, IsKept)
    IN  [n \in DOMAIN kept |-> [url |-> kept[n].url, title |-> kept[n].title]]

\* C6: what is gathered and stored is exactly what contains the platform
\* string and a dataset token
C6_KeptIffPlatformAndToken ==
    /\ pc = "resources" =>
          resources = Flatten([p \in 1..(pj - 1) |->
                                  IF CallOf(ui, p).outcome.ok
                                  THEN DatasetsOf(CallOf(ui, p).outcome.results, platforms[p])
                                  ELSE <<>>])
    /\ \A i \in DOMAIN resource_map :
          \A n \in DOMAIN resource_map[i].val :
              \E p \in DOMAIN platforms :
                  IsDatasetOf(resource_map[i].val[n].url, platforms[p])
    /\ KeepResult(<<"k","a","g","g","l","e",".","c","o","m","/","d","a","t","a","s","e","t","s","/","x","/","r","o","b","o","t","i","c","s","-","d","a","t","a">>, <<"k","a","g","g","l","e",".","c","o","m","/","d","a","t","a","s","e","t","s">>)
    /\ ~KeepResult(<<"k","a","g","g","l","e",".","c","o","m","/","n","o","t","e","b","o","o","k","s","/","x">>, <<"k","a","g","g","l","e",".","c","o","m","/","d","a","t","a","s","e","t","s">>)

\* the kaggle search returned the two URLs of the specification and a third
C6_Witness ==
    /\ pc = "resources"
    /\ pj = 2
    /\ CallOf(ui, 1).outcome = SearchOk(<< K1, K2, K3 >>)
    /\ resources = << [url |-> K1.url, title |-> K1.title],
                      [url |-> K3.url, title |-> K3.title] >>

(***************************************************************************)
(* C7 (as claimed).  Two calls of generate_final_proposal with the same    *)
(* arguments return the same document.                                     *)
(***************************************************************************)
C7_SameArgumentsSameDocument ==
    \A i, j \in DOMAIN proposals : proposals[i] = proposals[j]

(***************************************************************************)
(* C8.  generate_use_cases returns, in order of appearance, the trimmed    *)
(* non-empty segments between the numbered-list markers of the reply (a    *)
(* marker is a maximal run of digits followed by a period).  As claimed: a *)
(* reply without a marker gives the one-element list of the trimmed reply. *)
(* As amended: it does so when the trimmed reply is not empty, and gives   *)
(* the empty list when it is.                                              *)
(***************************************************************************)
\* the period that ends the marker starting at i, or 0
MarkerDot(s, i) ==
    IF /\ IsDigit(s[i])
       /\ i = 1 \/ ~IsDigit(s[i - 1])
       /\ \E j \in (i + 1)..Len(s) :
              s[j] = "." /\ \A k \in i..(j - 1) : IsDigit(s[k])
    THEN CHOOSE j \in (i + 1)..Len(s) : s[j] = "." /\ \A k \in i..(j - 1) : IsDigit(s[k])
    ELSE 0

InMarker(s, k) == \E i \in 1..k : MarkerDot(s, i) >= k

HasMarker(s) == \E i \in 1..Len(s) : MarkerDot(s, i) # 0

\* the positions where a segment of two or more characters, or of one, begins
SegmentStarts(s) == { i \in 1..Len(s) : ~InMarker(s, i) /\ (i = 1 \/ InMarker(s, i - 1)) }

SegmentEnd(s, i) ==
    CHOOSE j \in i..Len(s) :
        /\ \A k \in i..j : ~InMarker(s, k)
        /\ j = Len(s) \/ InMarker(s, j + 1)

RECURSIVE SegmentsFrom(_, _)
SegmentsFrom(s, starts) ==
    IF starts = {} THEN <<>>
    ELSE LET i == CHOOSE x \in starts : \A y \in starts : x <= y
             seg == Strip(SubSeq(s, i, SegmentEnd(s, i)))
         IN  (IF seg = <<>> THEN <<>> ELSE << seg >>)
             \o SegmentsFrom(s, starts \ {i})

TrimmedSegments(s) == SegmentsFrom(s, SegmentStarts(s))

\* the reply generate_use_cases parsed
ParsedReply == Str(llmLog[Len(llmLog)].reply)

HasParsed ==
    /\ llmLog # <<>>
    /\ llmLog[Len(llmLog)].agent = "use_case_generator"
    /\ llmLog[Len(llmLog)].reply.kind # "error"

\* C8 as claimed: a reply without a marker parses to the one-element list of
\* the trimmed reply
C8_NoMarkerGivesOneElement ==
    HasParsed /\ ~HasMarker(ParsedReply) => use_cases = << Strip(ParsedReply) >>

\* C8 as amended: the result is the list of trimmed non-empty segments; a
\* reply without a marker gives its trimmed text as the only element when
\* that is not empty and the empty list when it is
C8_TrimmedSegmentsInOrder ==
    HasParsed =>
        /\ use_cases = TrimmedSegments(ParsedReply)
        /\ ~HasMarker(ParsedReply) /\ Strip(ParsedReply) # <<>> =>
              use_cases = << Strip(ParsedReply) >>
        /\ ~HasMarker(ParsedReply) /\ Strip(ParsedReply) = <<>> => use_cases = <<>>
        /\ ParsedReply = <<"1","."," ","I","m","p","r","o","v","e"," ","r","o","u","t","i","n","g","."," ","2","."," ","P","r","e","d","i","c","t"," ","c","h","u","r","n",".">> =>
              use_cases = << <<"I","m","p","r","o","v","e"," ","r","o","u","t","i","n","g",".">>, <<"P","r","e","d","i","c","t"," ","c","h","u","r","n",".">> >>
        /\ ParsedReply = <<" ","A"," ","s","i","n","g","l","e"," ","u","n","i","f","i","e","d"," ","r","e","c","o","m","m","e","n","d","a","t","i","o","n"," ","e","n","g","i","n","e","."," ">> =>
              use_cases = << <<"A"," ","s","i","n","g","l","e"," ","u","n","i","f","i","e","d"," ","r","e","c","o","m","m","e","n","d","a","t","i","o","n"," ","e","n","g","i","n","e",".">> >>

\* the numbered reply of the specification was parsed into its two items
C8_Witness ==
    /\ HasParsed
    /\ ParsedReply = <<"1","."," ","I","m","p","r","o","v","e"," ","r","o","u","t","i","n","g","."," ","2","."," ","P","r","e","d","i","c","t"," ","c","h","u","r","n",".">>
    /\ Len(use_cases) = 2

=============================================================================
